---- MODULE Spec2Model ----
(***************************************************************************)
(* Name extraction and cross-document verification pipeline of app.py.     *)
(* A Python string is a sequence of one-character strings; a dict is a     *)
(* function whose domain is its set of keys; None is a value of its own.   *)
(***************************************************************************)
EXTENDS Integers, Sequences, FiniteSets, TLC

VARIABLES
    pc,               \* position of the running function
    doc,              \* OCR token structure of the current image: lines of words
    ocr_fails,        \* TRUE when the OCR call of the current image raises
    name_info,        \* dict built by extract_names / given to reformat_name
    names,            \* return value of process_image
    formatted_name,   \* return value of reformat_name
    images,           \* OCR outcome of every image of the folder, in glob order
    idx,              \* number of images of the folder processed so far
    entry,            \* which entry point runs on the folder
    file_details,     \* validate_folder: file_details; compare: files_processed
    extracted_names,  \* extracted_names of the folder
    is_correct,
    verified_name,
    errors,
    results           \* number of results appended for the folder

vars == <<pc, doc, ocr_fails, name_info, names, formatted_name, images, idx, entry,
          file_details, extracted_names, is_correct, verified_name, errors, results>>

imageVars == <<doc, ocr_fails, name_info, names, formatted_name>>
folderVars == <<images, idx, entry, file_details, extracted_names, is_correct,
                verified_name, errors, results>>

-----------------------------------------------------------------------------
(* Python values *)

None == <<"None">>
NoneDict == [k \in {<<"None">>} |-> <<>>]
EmptyDict == [k \in {} |-> <<>>]

\* truth value of a str-or-None / dict-or-None
Truthy(s) == s # None /\ s # <<>>
TruthyDict(d) == d # NoneDict /\ DOMAIN d # {}

DictSet(d, key, value) ==
    [k \in (DOMAIN d) \cup {key} |-> IF k = key THEN value ELSE d[k]]

-----------------------------------------------------------------------------
(* str methods *)

NL == "\n"
IsSpace(c) == c \in {" ", "\n", "\t"}

UpperChars == <<"A", "B", "C", "D", "E", "F", "G", "H", "I", "J", "K", "L", "M", "N", "O", "P", "Q", "R", "S", "T", "U", "V", "W", "X", "Y", "Z", "É">>
LowerChars == <<"a", "b", "c", "d", "e", "f", "g", "h", "i", "j", "k", "l", "m", "n", "o", "p", "q", "r", "s", "t", "u", "v", "w", "x", "y", "z", "é">>

RECURSIVE IndexOf(_, _, _)
IndexOf(c, s, i) ==
    IF i > Len(s) THEN 0 ELSE IF s[i] = c THEN i ELSE IndexOf(c, s, i + 1)

LowerChar(c) ==
    LET i == IndexOf(c, UpperChars, 1) IN IF i = 0 THEN c ELSE LowerChars[i]

str_lower(s) == [i \in 1..Len(s) |-> LowerChar(s[i])]

str_isupper(s) ==
    /\ \E i \in 1..Len(s) : IndexOf(s[i], UpperChars, 1) # 0
    /\ \A i \in 1..Len(s) : IndexOf(s[i], LowerChars, 1) = 0

RECURSIVE LStrip(_)
LStrip(s) == IF s # <<>> /\ IsSpace(Head(s)) THEN LStrip(Tail(s)) ELSE s

RECURSIVE RStrip(_)
RStrip(s) ==
    IF s # <<>> /\ IsSpace(s[Len(s)]) THEN RStrip(SubSeq(s, 1, Len(s) - 1)) ELSE s

str_strip(s) == RStrip(LStrip(s))

StartsWith(s, p) == Len(p) <= Len(s) /\ SubSeq(s, 1, Len(p)) = p

\* sub in s
str_in(sub, s) ==
    \E i \in 0..(Len(s) - Len(sub)) : SubSeq(s, i + 1, i + Len(sub)) = sub

\* s.split(sep), sep non-empty: left to right, non-overlapping
RECURSIVE SplitAcc(_, _, _)
SplitAcc(s, sep, cur) ==
    IF s = <<>> THEN <<cur>>
    ELSE IF StartsWith(s, sep)
         THEN <<cur>> \o SplitAcc(SubSeq(s, Len(sep) + 1, Len(s)), sep, <<>>)
         ELSE SplitAcc(Tail(s), sep, Append(cur, Head(s)))

str_split(s, sep) == SplitAcc(s, sep, <<>>)

\* s.split(): runs of whitespace separate, no empty parts
RECURSIVE SplitWsAcc(_, _)
SplitWsAcc(s, cur) ==
    IF s = <<>> THEN (IF cur = <<>> THEN <<>> ELSE <<cur>>)
    ELSE IF IsSpace(Head(s))
         THEN (IF cur = <<>> THEN <<>> ELSE <<cur>>) \o SplitWsAcc(Tail(s), <<>>)
         ELSE SplitWsAcc(Tail(s), Append(cur, Head(s)))

str_split_ws(s) == SplitWsAcc(s, <<>>)

\* s.replace(c, "")
RECURSIVE str_remove(_, _)
str_remove(s, c) ==
    IF s = <<>> THEN <<>>
    ELSE IF Head(s) = c THEN str_remove(Tail(s), c)
         ELSE <<Head(s)>> \o str_remove(Tail(s), c)

\* sep.join(parts)
RECURSIVE str_join(_, _)
str_join(sep, parts) ==
    IF parts = <<>> THEN <<>>
    ELSE IF Len(parts) = 1 THEN parts[1]
         ELSE parts[1] \o sep \o str_join(sep, Tail(parts))

-----------------------------------------------------------------------------
(* app.py *)

kPrenom == <<"P", "r", "é", "n", "o", "m">>
kNom == <<"N", "o", "m">>
kCandidat == <<"L", "e", " ", "c", "a", "n", "d", "i", "d", "a", "t", "(", "e", ")">>

keywords == <<kPrenom, kNom, kCandidat>>

normalize_value(value) == str_strip(str_remove(value, ":"))

\* variant: a two-token combined value is not reversed
reformat_name_noswap(info) ==
    IF kPrenom \in DOMAIN info /\ kNom \in DOMAIN info
    THEN normalize_value(info[kPrenom]) \o <<" ">> \o normalize_value(info[kNom])
    ELSE IF kCandidat \in DOMAIN info
         THEN normalize_value(info[kCandidat])
         ELSE None

reformat_name(info) ==
    IF kPrenom \in DOMAIN info /\ kNom \in DOMAIN info
    THEN normalize_value(info[kPrenom]) \o <<" ">> \o normalize_value(info[kNom])
    ELSE IF kCandidat \in DOMAIN info
         THEN LET full_name == normalize_value(info[kCandidat])
                  parts == str_split_ws(full_name)
              IN  IF Len(parts) = 2 THEN parts[2] \o <<" ">> \o parts[1]
                  ELSE full_name
         ELSE None

-----------------------------------------------------------------------------
(* reformat_name over raw field maps *)

FormatValues ==
    { <<>>, <<"J", "e", "a", "n">>, <<" ", "D", "u", "p", "o", "n", "t", " ">>, <<":", " ", "J", "e", "a", "n">>, <<"D", "u", "p", "o", "n", "t", " ", "J", "e", "a", "n">>, <<"D", "u", "p", "o", "n", "t", " ", " ", " ", "J", "e", "a", "n">>,
      <<"J", "e", "a", "n", " ", "P", "a", "u", "l", " ", "D", "u", "p", "o", "n", "t">>, <<"D", "u", "p", "o", "n", "t", " ", ":", " ", "J", "e", "a", "n">>, <<"J", "e", "a", "n", ":", "P", "a", "u", "l">>, <<":">> }

RawFieldMaps ==
    UNION { [ks -> FormatValues] : ks \in SUBSET {kPrenom, kNom, kCandidat} }

FolderIdle ==
    /\ images = <<>>
    /\ idx = 0
    /\ entry = "none"
    /\ file_details = <<>>
    /\ extracted_names = <<>>
    /\ is_correct = FALSE
    /\ verified_name = None
    /\ errors = <<>>
    /\ results = 0

InitFormat ==
    /\ pc = "reformat"
    /\ doc = <<>>
    /\ ocr_fails = FALSE
    /\ name_info \in RawFieldMaps
    /\ names = NoneDict
    /\ formatted_name = None
    /\ FolderIdle

Reformat ==
    /\ pc = "reformat"
    /\ formatted_name' = reformat_name(name_info)
    /\ pc' = "formatted"
    /\ UNCHANGED <<doc, ocr_fails, name_info, names>>
    /\ UNCHANGED folderVars

NextFormat == Reformat

SpecFormat == InitFormat /\ [][NextFormat]_vars

\* maximal whitespace-free runs of v, by position
TokenStarts(v) ==
    { i \in 1..Len(v) : ~IsSpace(v[i]) /\ (i = 1 \/ IsSpace(v[i - 1])) }
TokenEnd(v, i) ==
    CHOOSE j \in i..Len(v) :
        /\ \A k \in i..j : ~IsSpace(v[k])
        /\ (j = Len(v) \/ IsSpace(v[j + 1]))
TokenAt(v, i) == SubSeq(v, i, TokenEnd(v, i))
MinOf(S) == CHOOSE x \in S : \A y \in S : x <= y
MaxOf(S) == CHOOSE x \in S : \A y \in S : y <= x

\* C4: reformat_name returns normalize(Prénom) + " " + normalize(Nom) when both
\* are present (whatever "Le candidat(e)" holds); otherwise, with
\* "Le candidat(e)" present, the normalized value with its two tokens swapped
\* when it has exactly 2 whitespace-separated tokens and the normalized value
\* unchanged for any other token count; otherwise None.
C4_ReformatContract ==
    pc = "formatted" =>
        IF kPrenom \in DOMAIN name_info /\ kNom \in DOMAIN name_info
        THEN formatted_name =
                normalize_value(name_info[kPrenom]) \o <<" ">>
                    \o normalize_value(name_info[kNom])
        ELSE IF kCandidat \in DOMAIN name_info
             THEN LET v == normalize_value(name_info[kCandidat])
                      st == TokenStarts(v)
                  IN  IF Cardinality(st) = 2
                      THEN formatted_name =
                               TokenAt(v, MaxOf(st)) \o <<" ">> \o TokenAt(v, MinOf(st))
                      ELSE formatted_name = v
             ELSE formatted_name = None

C4_Witness ==
    /\ pc = "formatted"
    /\ kPrenom \notin DOMAIN name_info
    /\ kCandidat \in DOMAIN name_info
    /\ name_info[kCandidat] = <<"D", "u", "p", "o", "n", "t", " ", ":", " ", "J", "e", "a", "n">>
    /\ formatted_name = <<"J", "e", "a", "n", " ", "D", "u", "p", "o", "n", "t">>

-----------------------------------------------------------------------------
(* OCR result: the token structure is a sequence of lines of words (docTR   *)
(* words hold no whitespace); render() joins the words of a line with a     *)
(* space and the lines with a line break.                                   *)

Words(line) == str_split_ws(line)

render(d) == str_join(<<NL>>, [i \in 1..Len(d) |-> str_join(<<" ">>, d[i])])

\* sequences of at most n elements of S
SeqsUpTo(S, n) == UNION { [1..k -> S] : k \in 0..n }

\* variant: a keyword already recorded keeps its first value
RECURSIVE extract_line_first_wins(_, _, _, _)
extract_line_first_wins(info, line, kws, j) ==
    IF j > Len(kws) THEN info
    ELSE IF str_in(kws[j], line)
         THEN LET parts == str_split(line, kws[j])
                  value == str_strip(parts[Len(parts)])
              IN  IF kws[j] \in DOMAIN info THEN info
                  ELSE DictSet(info, kws[j], value)
         ELSE extract_line_first_wins(info, line, kws, j + 1)

\* the inner loop over keywords, left at the first keyword found in the line
RECURSIVE extract_line(_, _, _, _)
extract_line(info, line, kws, j) ==
    IF j > Len(kws) THEN info
    ELSE IF str_in(kws[j], line)
         THEN LET parts == str_split(line, kws[j])
                  value == str_strip(parts[Len(parts)])
              IN  DictSet(info, kws[j], value)
         ELSE extract_line(info, line, kws, j + 1)

\* variant: the line is taken from each keyword's first occurrence onwards
RECURSIVE extract_lines_first_part(_, _, _, _)
extract_lines_first_part(info, lines, kws, i) ==
    IF i > Len(lines) THEN info
    ELSE LET won == { j \in 1..Len(kws) :
                        /\ str_in(kws[j], lines[i])
                        /\ \A h \in 1..(j - 1) : ~str_in(kws[h], lines[i]) }
             next == IF won = {} THEN info
                     ELSE LET j == CHOOSE x \in won : TRUE
                          IN  DictSet(info, kws[j],
                                      str_strip(str_split(lines[i], kws[j])[2]))
         IN  extract_lines_first_part(next, lines, kws, i + 1)

RECURSIVE extract_lines(_, _, _, _)
extract_lines(info, lines, kws, i) ==
    IF i > Len(lines) THEN info
    ELSE extract_lines(extract_line(info, lines[i], kws, 1), lines, kws, i + 1)

extract_names(text, kws) ==
    extract_lines(EmptyDict, str_split(text, <<NL>>), kws, 1)

-----------------------------------------------------------------------------
(* extract_names, then reformat_name, over transcripts *)

MaxExtractLines == 2

CleanValues == { <<"J", "e", "a", "n">>, <<"D", "u", "p", "o", "n", "t">> }

KeyValueLines ==
    { k \o <<":", " ">> \o v : k \in {kPrenom, kNom, kCandidat}, v \in CleanValues }

ExtractLineVocab ==
    KeyValueLines \cup
    { <<"N", "o", "m", " ", "D", "u", "r", "a", "n", "d">>, <<"P", "r", "é", "n", "o", "m", " ", "M", "a", "r", "i", "e", " ", "N", "o", "m", " ", "C", "u", "r", "i", "e">>, <<"N", "o", "m", " ", "C", "u", "r", "i", "e", " ", "P", "r", "é", "n", "o", "m", " ", "M", "a", "r", "i", "e">>,
      <<"N", "o", "m", " ", "A", " ", "N", "o", "m", " ", "B">>, <<"L", "e", " ", "c", "a", "n", "d", "i", "d", "a", "t", "(", "e", ")", " ", "N", "o", "m", " ", "X">>, <<"D", "a", "t", "e", ":", " ", "2", "0", "2", "4">>, <<"p", "r", "é", "n", "o", "m", ":", " ", "j", "e", "a", "n">>,
      <<"P", "r", "é", "n", "o", "m">>, <<>> }

ExtractDocs == SeqsUpTo({ Words(l) : l \in ExtractLineVocab }, MaxExtractLines)

InitExtract ==
    /\ pc = "extract"
    /\ doc \in ExtractDocs
    /\ ocr_fails = FALSE
    /\ name_info = EmptyDict
    /\ names = NoneDict
    /\ formatted_name = None
    /\ FolderIdle

Extract ==
    /\ pc = "extract"
    /\ name_info' = extract_names(render(doc), keywords)
    /\ pc' = "reformat"
    /\ UNCHANGED <<doc, ocr_fails, names, formatted_name>>
    /\ UNCHANGED folderVars

NextExtract == Extract \/ Reformat

SpecExtract == InitExtract /\ [][NextExtract]_vars

\* the transcript lines as the extractor sees them
LineText(i) == str_join(<<" ">>, doc[i])
TextLines == IF doc = <<>> THEN {0} ELSE 1..Len(doc)
TextLine(i) == IF i = 0 THEN <<>> ELSE LineText(i)

\* the keyword a line is recorded under: the first of the priority list in it
Occurs(k, l) == { p \in 1..(Len(l) - Len(k) + 1) : SubSeq(l, p, p + Len(k) - 1) = k }
WinnerOf(l) ==
    IF Occurs(kPrenom, l) # {} THEN kPrenom
    ELSE IF Occurs(kNom, l) # {} THEN kNom
    ELSE IF Occurs(kCandidat, l) # {} THEN kCandidat
    ELSE None
AfterLast(k, l) ==
    LET p == MaxOf(Occurs(k, l))
    IN  str_strip(SubSeq(l, p + Len(k), Len(l)))
LinesWonBy(k) == { i \in TextLines : WinnerOf(TextLine(i)) = k }

\* C10: extract_names records, per line, a value only under the first keyword
\* of the priority list occurring in the line (the trimmed text after that
\* keyword's last occurrence); a later matching line overwrites an earlier
\* one, so each entry comes from the last line matched for its keyword, and
\* the result is empty iff no line contains any keyword.
C10_LastLineWins ==
    pc \in {"reformat", "formatted"} =>
        /\ DOMAIN name_info \subseteq {kPrenom, kNom, kCandidat}
        /\ \A k \in {kPrenom, kNom, kCandidat} :
               /\ (k \in DOMAIN name_info) <=> (LinesWonBy(k) # {})
               /\ k \in DOMAIN name_info =>
                      name_info[k] = AfterLast(k, TextLine(MaxOf(LinesWonBy(k))))
        /\ (DOMAIN name_info = {}) <=>
               (\A i \in TextLines : \A k \in {kPrenom, kNom, kCandidat} :
                    Occurs(k, TextLine(i)) = {})

C10_Witness ==
    /\ pc = "reformat"
    /\ doc = <<Words(<<"N", "o", "m", " ", "C", "u", "r", "i", "e", " ", "P", "r", "é", "n", "o", "m", " ", "M", "a", "r", "i", "e">>), Words(<<"P", "r", "é", "n", "o", "m", ":", " ", "J", "e", "a", "n">>)>>
    /\ name_info = [k \in {kPrenom} |-> <<":", " ", "J", "e", "a", "n">>]

\* lines of the form <keyword>": "<value>
AllKeyValue ==
    /\ doc # <<>>
    /\ \A i \in 1..Len(doc) : LineText(i) \in KeyValueLines
KVKey(l) ==
    CHOOSE k \in {kPrenom, kNom, kCandidat} :
        \E v \in CleanValues : l = k \o <<":", " ">> \o v
KVValue(l) == CHOOSE v \in CleanValues : l = KVKey(l) \o <<":", " ">> \o v
KVLinesOf(k) == { i \in 1..Len(doc) : KVKey(LineText(i)) = k }
KVLast(k) == KVValue(LineText(MaxOf(KVLinesOf(k))))

\* C7 as stated: for lines of the form <keyword>": "<value>, extract_names
\* maps each keyword to the bare value, without the colon, and reformat_name
\* on the map of ["Prénom: Jean", "Nom: Dupont"] returns "Jean Dupont".
C7_BareValues ==
    (pc \in {"reformat", "formatted"} /\ AllKeyValue) =>
        /\ \A k \in {kPrenom, kNom, kCandidat} :
               KVLinesOf(k) # {} =>
                   k \in DOMAIN name_info /\ name_info[k] = KVLast(k)
        /\ (pc = "formatted"
              /\ doc = <<Words(<<"P", "r", "é", "n", "o", "m", ":", " ", "J", "e", "a", "n">>), Words(<<"N", "o", "m", ":", " ", "D", "u", "p", "o", "n", "t">>)>>) =>
                 formatted_name = <<"J", "e", "a", "n", " ", "D", "u", "p", "o", "n", "t">>

\* C7 amended: for lines of the form <keyword>": "<value>, extract_names maps
\* each keyword to the trimmed text after the keyword, which keeps the colon
\* (": " followed by the value of the last line of that keyword); the colon
\* is removed by reformat_name, which returns "Jean Dupont" on the map of
\* ["Prénom: Jean", "Nom: Dupont"] and, in general, the bare first-name value,
\* a space and the bare last-name value when both keywords have a line.
C7_ColonKept ==
    (pc \in {"reformat", "formatted"} /\ AllKeyValue) =>
        /\ \A k \in {kPrenom, kNom, kCandidat} :
               /\ (k \in DOMAIN name_info) <=> (KVLinesOf(k) # {})
               /\ KVLinesOf(k) # {} => name_info[k] = <<":", " ">> \o KVLast(k)
        /\ (pc = "formatted" /\ KVLinesOf(kPrenom) # {} /\ KVLinesOf(kNom) # {}) =>
               formatted_name = KVLast(kPrenom) \o <<" ">> \o KVLast(kNom)
        /\ (pc = "formatted"
              /\ doc = <<Words(<<"P", "r", "é", "n", "o", "m", ":", " ", "J", "e", "a", "n">>), Words(<<"N", "o", "m", ":", " ", "D", "u", "p", "o", "n", "t">>)>>) =>
                 formatted_name = <<"J", "e", "a", "n", " ", "D", "u", "p", "o", "n", "t">>

C7_Witness ==
    /\ pc = "formatted"
    /\ doc = <<Words(<<"P", "r", "é", "n", "o", "m", ":", " ", "J", "e", "a", "n">>), Words(<<"N", "o", "m", ":", " ", "D", "u", "p", "o", "n", "t">>)>>
    /\ name_info = [k \in {kPrenom, kNom} |->
                        IF k = kPrenom THEN <<":", " ", "J", "e", "a", "n">> ELSE <<":", " ", "D", "u", "p", "o", "n", "t">>]
    /\ formatted_name = <<"J", "e", "a", "n", " ", "D", "u", "p", "o", "n", "t">>

-----------------------------------------------------------------------------
(* process_image *)

MinWordLen == 2
MinCapitalWords == 7
PrenomIndex == 5
NomIndex == 6

RECURSIVE FlattenWords(_)
FlattenWords(d) == IF d = <<>> THEN <<>> ELSE Head(d) \o FlattenWords(Tail(d))

RECURSIVE FilterCapital(_)
FilterCapital(ws) ==
    IF ws = <<>> THEN <<>>
    ELSE IF str_isupper(Head(ws)) /\ Len(Head(ws)) > MinWordLen
         THEN <<Head(ws)>> \o FilterCapital(Tail(ws))
         ELSE FilterCapital(Tail(ws))

extract_capital_words(d) == FilterCapital(FlattenWords(d))

\* one iteration of the pattern loop: the colon check, then the candidate check
pattern_line(info, lines, i) ==
    LET line == lines[i]
        afterColon ==
            IF str_in(<<":">>, line)
            THEN LET parts == str_split(line, <<":">>)
                     key == str_lower(str_strip(parts[1]))
                     value == str_strip(parts[2])
                 IN  IF str_in(<<"n", "o", "m">>, key) THEN DictSet(info, kNom, value)
                     ELSE IF str_in(<<"p", "r", "é", "n", "o", "m">>, key) \/ str_in(<<"p", "r", "e", "n", "o", "m">>, key)
                          THEN DictSet(info, kPrenom, value)
                          ELSE info
            ELSE info
    IN  IF str_in(<<"c", "a", "n", "d", "i", "d", "a", "t">>, str_lower(line)) /\ i + 1 <= Len(lines)
        THEN DictSet(afterColon, kCandidat, str_strip(lines[i + 1]))
        ELSE afterColon

RECURSIVE pattern_lines(_, _, _)
pattern_lines(info, lines, i) ==
    IF i > Len(lines) THEN info
    ELSE pattern_lines(pattern_line(info, lines, i), lines, i + 1)

\* variant: the capitalized-token map needs more than MinCapitalWords tokens
process_image_strict(fails, d) ==
    IF fails THEN NoneDict
    ELSE LET extracted_text == render(d)
             info == extract_names(extracted_text, keywords)
         IN  IF DOMAIN info # {} THEN info
             ELSE LET capital_words == extract_capital_words(d)
                  IN  IF Len(capital_words) > MinCapitalWords
                      THEN [k \in {kPrenom, kNom} |->
                               IF k = kPrenom THEN capital_words[PrenomIndex + 1]
                               ELSE capital_words[NomIndex + 1]]
                      ELSE LET found ==
                                   pattern_lines(info, str_split(extracted_text, <<NL>>), 1)
                           IN  IF DOMAIN found # {} THEN found ELSE NoneDict

process_image(fails, d) ==
    IF fails THEN NoneDict
    ELSE LET extracted_text == render(d)
             info == extract_names(extracted_text, keywords)
         IN  IF DOMAIN info # {} THEN info
             ELSE LET capital_words == extract_capital_words(d)
                  IN  IF Len(capital_words) >= MinCapitalWords
                      THEN [k \in {kPrenom, kNom} |->
                               IF k = kPrenom THEN capital_words[PrenomIndex + 1]
                               ELSE capital_words[NomIndex + 1]]
                      ELSE LET found ==
                                   pattern_lines(info, str_split(extracted_text, <<NL>>), 1)
                           IN  IF DOMAIN found # {} THEN found ELSE NoneDict

-----------------------------------------------------------------------------
(* process_image over OCR outcomes *)

MaxImageLines == 3

ImageLineVocab ==
    { <<"P", "r", "é", "n", "o", "m", ":", " ", "J", "e", "a", "n">>, <<"n", "o", "m", ":", " ", "D", "u", "p", "o", "n", "t">>, <<"P", "r", "e", "n", "o", "m", ":", " ", "J", "e", "a", "n">>, <<"p", "r", "é", "n", "o", "m", ":", " ", "M", "a", "r", "i", "e">>,
      <<"I", "n", "f", "o", "s", " ", "c", "a", "n", "d", "i", "d", "a", "t">>, <<"J", "e", "a", "n", " ", "D", "u", "p", "o", "n", "t">>, <<"n", "o", "m", ":", " ", "D", "u", ":", " ", "p", "o", "n", "t">>, <<"c", "i", "n", ":", " ", "A", "B">>,
      <<"R", "O", "Y", "A", "U", "M", "E", " ", "D", "U", " ", "M", "A", "R", "O", "C", " ", "C", "A", "R", "T", "E", " ", "N", "A", "T", "I", "O", "N", "A", "L", "E">>, <<"N", "O", "M", ":", " ", "D", "U", "P", "O", "N", "T">>, <<"C", "A", "N", "D", "I", "D", "A", "T">> }

ImageDocs == SeqsUpTo({ Words(l) : l \in ImageLineVocab }, MaxImageLines)

OcrOutcomes(docs) ==
    { [fails |-> TRUE, doc |-> <<>>] } \cup { [fails |-> FALSE, doc |-> d] : d \in docs }

InitImage ==
    /\ pc = "process"
    /\ \E o \in OcrOutcomes(ImageDocs) : doc = o.doc /\ ocr_fails = o.fails
    /\ name_info = EmptyDict
    /\ names = NoneDict
    /\ formatted_name = None
    /\ FolderIdle

ProcessImage ==
    /\ pc = "process"
    /\ names' = process_image(ocr_fails, doc)
    /\ pc' = "processed"
    /\ UNCHANGED <<doc, ocr_fails, name_info, formatted_name>>
    /\ UNCHANGED folderVars

NextImage == ProcessImage

SpecImage == InitImage /\ [][NextImage]_vars

\* what the three strategies see, stated on the OCR result itself
KeywordsAbsent ==
    \A i \in TextLines : \A k \in {kPrenom, kNom, kCandidat} :
        Occurs(k, TextLine(i)) = {}
KeywordMap ==
    [k \in { kk \in {kPrenom, kNom, kCandidat} : LinesWonBy(kk) # {} } |->
        AfterLast(k, TextLine(MaxOf(LinesWonBy(k))))]

Qualifies(w) ==
    /\ Len(w) >= 3
    /\ \E n \in 1..Len(w) : \E u \in 1..Len(UpperChars) : w[n] = UpperChars[u]
    /\ \A n \in 1..Len(w) : \A u \in 1..Len(LowerChars) : w[n] # LowerChars[u]
QualPositions ==
    { p \in (1..Len(doc)) \X (1..MaxOf({0} \cup { Len(doc[i]) : i \in 1..Len(doc) })) :
        p[2] <= Len(doc[p[1]]) /\ Qualifies(doc[p[1]][p[2]]) }
Before(p, q) == p[1] < q[1] \/ (p[1] = q[1] /\ p[2] < q[2])
\* the qualifying token of 0-based index n in reading order
QualToken(n) ==
    LET p == CHOOSE q \in QualPositions :
                 Cardinality({ r \in QualPositions : Before(r, q) }) = n
    IN  doc[p[1]][p[2]]

ColonPositions(l) == { p \in 1..Len(l) : l[p] = ":" }
KeyOf(l) == str_lower(str_strip(SubSeq(l, 1, MinOf(ColonPositions(l)) - 1)))
HasSub(sub, l) == Occurs(sub, l) # {}
\* the text between the first colon and the second (or the end of the line)
FirstField(l) ==
    LET c1 == MinOf(ColonPositions(l))
        rest == { p \in ColonPositions(l) : p > c1 }
        stop == IF rest = {} THEN Len(l) ELSE MinOf(rest) - 1
    IN  str_strip(SubSeq(l, c1 + 1, stop))
\* the whole text after the first colon
Remainder(l) == str_strip(SubSeq(l, MinOf(ColonPositions(l)) + 1, Len(l)))

NomKeyLines ==
    { i \in TextLines :
        ColonPositions(TextLine(i)) # {} /\ HasSub(<<"n", "o", "m">>, KeyOf(TextLine(i))) }
PrenomKeyLines ==
    { i \in TextLines :
        /\ ColonPositions(TextLine(i)) # {}
        /\ (HasSub(<<"p", "r", "é", "n", "o", "m">>, KeyOf(TextLine(i))) \/ HasSub(<<"p", "r", "e", "n", "o", "m">>, KeyOf(TextLine(i)))) }
CandidatLines ==
    { i \in TextLines :
        HasSub(<<"c", "a", "n", "d", "i", "d", "a", "t">>, str_lower(TextLine(i))) /\ i + 1 \in TextLines }
PatternPath ==
    /\ pc = "processed"
    /\ ~ocr_fails
    /\ KeywordsAbsent
    /\ Cardinality(QualPositions) < MinCapitalWords

\* C5: process_image tries keyword, capitalized-token, colon-pattern in that
\* order and returns the first non-empty map: a non-empty keyword map always;
\* the map of qualifying tokens 5 and 6 only with an empty keyword map and at
\* least 7 qualifying tokens; the colon-pattern map only with an empty keyword
\* map and fewer than 7 qualifying tokens; None when all three are empty.
C5_StrategyOrder ==
    (pc = "processed" /\ ~ocr_fails) =>
        IF ~KeywordsAbsent THEN names = KeywordMap
        ELSE IF Cardinality(QualPositions) >= 7
             THEN names = [k \in {kPrenom, kNom} |->
                              IF k = kPrenom THEN QualToken(5) ELSE QualToken(6)]
             ELSE /\ (names = NoneDict) <=> (NomKeyLines = {} /\ CandidatLines = {})
                  /\ names # NoneDict =>
                        /\ DOMAIN names =
                              { k \in {kNom, kCandidat} :
                                  \/ k = kNom /\ NomKeyLines # {}
                                  \/ k = kCandidat /\ CandidatLines # {} }
                        /\ kNom \in DOMAIN names =>
                              names[kNom] = FirstField(TextLine(MaxOf(NomKeyLines)))
                        /\ kCandidat \in DOMAIN names =>
                              names[kCandidat] =
                                  str_strip(TextLine(MaxOf(CandidatLines) + 1))

C5_Witness ==
    /\ pc = "processed"
    /\ doc = <<Words(<<"R", "O", "Y", "A", "U", "M", "E", " ", "D", "U", " ", "M", "A", "R", "O", "C", " ", "C", "A", "R", "T", "E", " ", "N", "A", "T", "I", "O", "N", "A", "L", "E">>), Words(<<"N", "O", "M", ":", " ", "D", "U", "P", "O", "N", "T">>),
               Words(<<"C", "A", "N", "D", "I", "D", "A", "T">>)>>
    /\ names = [k \in {kPrenom, kNom} |->
                    IF k = kPrenom THEN <<"D", "U", "P", "O", "N", "T">> ELSE <<"C", "A", "N", "D", "I", "D", "A", "T">>]

\* C8: in the colon-pattern fallback, a line with a colon whose lowercased key
\* contains "prénom" or "prenom" has its value assigned to "Prénom".
C8_PrenomKeyAssigned ==
    (PatternPath /\ PrenomKeyLines # {}) =>
        /\ kPrenom \in DOMAIN names
        /\ names[kPrenom] \in
              { FirstField(TextLine(MaxOf(PrenomKeyLines))),
                Remainder(TextLine(MaxOf(PrenomKeyLines))) }

\* C9: in the colon-pattern fallback, a line with colons is split on its first
\* colon only: the value is the whole trimmed remainder after the first colon.
C9_FirstColonOnly ==
    (PatternPath /\ NomKeyLines # {}) =>
        /\ kNom \in DOMAIN names
        /\ names[kNom] = Remainder(TextLine(MaxOf(NomKeyLines)))

-----------------------------------------------------------------------------
(* validate_folder and compare_names_in_folder on one sub-folder *)

MaxImages == 3

FolderDocs ==
    { <<Words(<<"P", "r", "é", "n", "o", "m", ":", " ", "J", "e", "a", "n">>), Words(<<"N", "o", "m", ":", " ", "D", "u", "p", "o", "n", "t">>)>>,
      <<Words(<<"L", "e", " ", "c", "a", "n", "d", "i", "d", "a", "t", "(", "e", ")", ":", " ", "D", "u", "p", "o", "n", "t", " ", "J", "e", "a", "n">>)>>,
      <<Words(<<"I", "n", "f", "o", "s", " ", "c", "a", "n", "d", "i", "d", "a", "t">>), Words(<<"J", "e", "a", "n", " ", "D", "u", "p", "o", "n", "t">>)>>,
      <<Words(<<"J", "e", "a", "n", " ", "D", "u", "p", "o", "n", "t">>)>>,
      <<Words(<<"P", "r", "é", "n", "o", "m", ":", " ", "J", "e", "a", "n">>)>>,
      <<Words(<<"L", "e", " ", "c", "a", "n", "d", "i", "d", "a", "t", "(", "e", ")">>)>> }

Folders == SeqsUpTo(OcrOutcomes(FolderDocs), MaxImages)

NoNameError == "No name could be extracted"
MismatchError == "Name mismatch: found"

AllEqualTo(ns, first) == \A i \in 1..Len(ns) : ns[i] = first

\* variant: only images with a name get a file_details entry
validate_image_named_only(fd, en, file, outcome) ==
    LET nm == process_image(outcome.fails, outcome.doc)
        fn == IF TruthyDict(nm) THEN reformat_name(nm) ELSE None
    IN  [names |-> nm,
         formatted_name |-> fn,
         file_details |->
             IF Truthy(fn)
             THEN Append(fd, [file |-> file, extracted_name |-> fn, raw_data |-> nm])
             ELSE fd,
         extracted_names |-> IF Truthy(fn) THEN Append(en, fn) ELSE en]

\* body of the loop over image_paths in validate_folder
validate_image(fd, en, file, outcome) ==
    LET nm == process_image(outcome.fails, outcome.doc)
        fn == IF TruthyDict(nm) THEN reformat_name(nm) ELSE None
    IN  [names |-> nm,
         formatted_name |-> fn,
         file_details |->
             Append(fd, [file |-> file, extracted_name |-> fn, raw_data |-> nm]),
         extracted_names |-> IF Truthy(fn) THEN Append(en, fn) ELSE en]

\* variant: the mismatch test comes before the missing-name test
RECURSIVE folder_errors_mismatch_first(_, _, _, _)
folder_errors_mismatch_first(fd, correct, first_name, i) ==
    IF i > Len(fd) THEN <<>>
    ELSE (IF ~correct /\ fd[i].extracted_name # first_name
          THEN <<[file |-> fd[i].file, error |-> MismatchError,
                  found |-> fd[i].extracted_name]>>
          ELSE IF ~Truthy(fd[i].extracted_name)
               THEN <<[file |-> fd[i].file, error |-> NoNameError, found |-> None]>>
               ELSE <<>>)
         \o folder_errors_mismatch_first(fd, correct, first_name, i + 1)

RECURSIVE folder_errors(_, _, _, _)
folder_errors(fd, correct, first_name, i) ==
    IF i > Len(fd) THEN <<>>
    ELSE (IF ~Truthy(fd[i].extracted_name)
          THEN <<[file |-> fd[i].file, error |-> NoNameError, found |-> None]>>
          ELSE IF ~correct /\ fd[i].extracted_name # first_name
               THEN <<[file |-> fd[i].file, error |-> MismatchError,
                       found |-> fd[i].extracted_name]>>
               ELSE <<>>)
         \o folder_errors(fd, correct, first_name, i + 1)

\* variant: the folder is correct when the last name equals the first
validate_result_last_only(fd, en) ==
    IF en # <<>>
    THEN LET first_name == en[1]
             correct == en[Len(en)] = first_name
         IN  [is_correct |-> correct,
              verified_name |-> IF correct THEN first_name ELSE None,
              errors |-> folder_errors(fd, correct, first_name, 1)]
    ELSE [is_correct |-> FALSE, verified_name |-> None, errors |-> <<>>]

\* "Determine if all names match" and "Generate errors for mismatches"
validate_result(fd, en) ==
    IF en # <<>>
    THEN LET first_name == en[1]
             correct == AllEqualTo(en, first_name)
         IN  [is_correct |-> correct,
              verified_name |-> IF correct THEN first_name ELSE None,
              errors |-> folder_errors(fd, correct, first_name, 1)]
    ELSE [is_correct |-> FALSE, verified_name |-> None, errors |-> <<>>]

\* body of the loop over image_paths in compare_names_in_folder
compare_image(fp, en, file, outcome) ==
    LET nm == process_image(outcome.fails, outcome.doc)
        fn == IF TruthyDict(nm) THEN reformat_name(nm) ELSE None
    IN  [names |-> nm,
         formatted_name |-> fn,
         file_details |->
             IF Truthy(fn) THEN Append(fp, [file |-> file, extracted_name |-> fn])
             ELSE fp,
         extracted_names |-> IF Truthy(fn) THEN Append(en, fn) ELSE en]

compare_result(en) ==
    IF en # <<>> /\ AllEqualTo(en, en[1])
    THEN [is_correct |-> TRUE, verified_name |-> en[1]]
    ELSE [is_correct |-> FALSE, verified_name |-> None]

Init ==
    /\ pc = "loop"
    /\ entry \in {"validate", "compare"}
    /\ images \in Folders
    /\ idx = 0
    /\ doc = <<>>
    /\ ocr_fails = FALSE
    /\ name_info = EmptyDict
    /\ names = NoneDict
    /\ formatted_name = None
    /\ file_details = <<>>
    /\ extracted_names = <<>>
    /\ is_correct = FALSE
    /\ verified_name = None
    /\ errors = <<>>
    /\ results = 0

\* if not image_paths: continue
SkipFolder ==
    /\ pc = "loop"
    /\ images = <<>>
    /\ pc' = "skipped"
    /\ UNCHANGED imageVars
    /\ UNCHANGED folderVars

ValidateImage ==
    /\ pc = "loop"
    /\ entry = "validate"
    /\ idx < Len(images)
    /\ LET r == validate_image(file_details, extracted_names, idx + 1, images[idx + 1])
       IN  /\ doc' = images[idx + 1].doc
           /\ ocr_fails' = images[idx + 1].fails
           /\ names' = r.names
           /\ formatted_name' = r.formatted_name
           /\ file_details' = r.file_details
           /\ extracted_names' = r.extracted_names
    /\ idx' = idx + 1
    /\ UNCHANGED <<pc, name_info, images, entry, is_correct, verified_name, errors,
                   results>>

ValidateResult ==
    /\ pc = "loop"
    /\ entry = "validate"
    /\ images # <<>>
    /\ idx = Len(images)
    /\ LET r == validate_result(file_details, extracted_names)
       IN  /\ is_correct' = r.is_correct
           /\ verified_name' = r.verified_name
           /\ errors' = r.errors
    /\ results' = results + 1
    /\ pc' = "done"
    /\ UNCHANGED imageVars
    /\ UNCHANGED <<images, idx, entry, file_details, extracted_names>>

CompareImage ==
    /\ pc = "loop"
    /\ entry = "compare"
    /\ idx < Len(images)
    /\ LET r == compare_image(file_details, extracted_names, idx + 1, images[idx + 1])
       IN  /\ doc' = images[idx + 1].doc
           /\ ocr_fails' = images[idx + 1].fails
           /\ names' = r.names
           /\ formatted_name' = r.formatted_name
           /\ file_details' = r.file_details
           /\ extracted_names' = r.extracted_names
    /\ idx' = idx + 1
    /\ UNCHANGED <<pc, name_info, images, entry, is_correct, verified_name, errors,
                   results>>

CompareResult ==
    /\ pc = "loop"
    /\ entry = "compare"
    /\ images # <<>>
    /\ idx = Len(images)
    /\ LET r == compare_result(extracted_names)
       IN  /\ is_correct' = r.is_correct
           /\ verified_name' = r.verified_name
    /\ results' = results + 1
    /\ pc' = "done"
    /\ UNCHANGED imageVars
    /\ UNCHANGED <<images, idx, entry, file_details, extracted_names, errors>>

Next ==
    \/ SkipFolder
    \/ ValidateImage
    \/ ValidateResult
    \/ CompareImage
    \/ CompareResult

Spec == Init /\ [][Next]_vars

\* the FormattedName of image i, from the OCR outcome of the image
NameOf(i) ==
    LET nm == process_image(images[i].fails, images[i].doc)
    IN  IF nm = NoneDict THEN None ELSE reformat_name(nm)
HasName(i) == NameOf(i) # None /\ Len(NameOf(i)) > 0
Named == { i \in 1..Len(images) : HasName(i) }
Baseline == NameOf(MinOf(Named))
ErrorsOf(i, kind) == { e \in 1..Len(errors) : errors[e].file = i /\ errors[e].error = kind }

\* C1: in every result of validate_folder and of compare_names_in_folder,
\* is_correct holds iff at least one name was extracted in the folder and all
\* extracted names are the same string; verified_name is set iff is_correct,
\* and is then that common name.
C1_CorrectIffUnanimous ==
    pc = "done" =>
        /\ is_correct <=>
              (Named # {} /\ \A i \in Named : \A j \in Named : NameOf(i) = NameOf(j))
        /\ (verified_name # None) <=> is_correct
        /\ is_correct => \A i \in Named : verified_name = NameOf(i)

C1_Witness ==
    /\ pc = "done"
    /\ Cardinality(Named) >= 2
    /\ \E i \in Named : \E j \in Named : images[i] # images[j]
    /\ \E i \in 1..Len(images) : i \notin Named
    /\ is_correct
    /\ verified_name = <<"J", "e", "a", "n", " ", "D", "u", "p", "o", "n", "t">>

\* C2: in every result of validate_folder, each file without a name has
\* exactly one "extraction failed" record in errors, whatever the mix of
\* successful and failed images (also when no image yields a name), and such a
\* file never supplies the baseline name.
C2_EveryFailureRecorded ==
    (pc = "done" /\ entry = "validate") =>
        \A i \in 1..Len(images) :
            ~HasName(i) =>
                /\ Cardinality(ErrorsOf(i, NoNameError)) = 1
                /\ Named # {} => MinOf(Named) # i

\* C3: in every result of validate_folder, a file has a "name mismatch" record
\* iff is_correct is false, the file has a name, and that name differs from
\* the first extracted name of the folder; the file that supplied the first
\* extracted name is never flagged, and no mismatch record exists when
\* is_correct is true.
C3_MismatchIffDiffers ==
    (pc = "done" /\ entry = "validate") =>
        /\ \A i \in 1..Len(images) :
               /\ (ErrorsOf(i, MismatchError) # {}) <=>
                     (~is_correct /\ HasName(i) /\ NameOf(i) # Baseline)
               /\ Cardinality(ErrorsOf(i, MismatchError)) <= 1
               /\ \A e \in ErrorsOf(i, MismatchError) : errors[e].found = NameOf(i)
        /\ Named # {} => ErrorsOf(MinOf(Named), MismatchError) = {}
        /\ is_correct =>
               \A e \in 1..Len(errors) : errors[e].error # MismatchError

C3_Witness ==
    /\ pc = "done"
    /\ entry = "validate"
    /\ Len(images) = 3
    /\ Named = {1, 2, 3}
    /\ NameOf(1) = NameOf(3)
    /\ NameOf(2) # NameOf(1)
    /\ ErrorsOf(2, MismatchError) # {}
    /\ ErrorsOf(1, MismatchError) = {}
    /\ ErrorsOf(3, MismatchError) = {}

\* C6: in validate_folder an exception raised while one image is processed
\* becomes an absent result for that image only: the remaining images are
\* processed, the folder emits its result, and file_details holds exactly one
\* entry per image of the folder, in processing order.
C6_FailureIsLocal ==
    (entry = "validate" /\ images # <<>>) =>
        /\ Len(file_details) = idx
        /\ \A i \in 1..idx :
               /\ file_details[i].file = i
               /\ file_details[i].extracted_name = NameOf(i)
               /\ images[i].fails =>
                      /\ file_details[i].extracted_name = None
                      /\ file_details[i].raw_data = NoneDict
        /\ pc = "loop" => idx <= Len(images)
        /\ pc = "done" => (idx = Len(images) /\ results = 1)
        /\ pc \in {"loop", "done"}

C6_Witness ==
    /\ pc = "done"
    /\ entry = "validate"
    /\ results = 1
    /\ Len(images) = 3
    /\ images[1].fails
    /\ ~images[2].fails
    /\ images[3].fails
    /\ Len(file_details) = 3
    /\ file_details[2].extracted_name = <<"J", "e", "a", "n", " ", "D", "u", "p", "o", "n", "t">>

====
